---------------------------- MODULE Spec2Model ----------------------------
(***************************************************************************)
(* Model of the sequence packing helpers of examples/NER/model_factory.py  *)
(* and of the SRL evaluation utilities of                                  *)
(* nlp/pipeline/models/srl/eval_utils.py.                                  *)
(*                                                                         *)
(* Each group of functions has its own specification over its own          *)
(* variables; the variables of the other groups stay at their idle value.  *)
(*   SpecRnn     prepare_rnn_seq / rnn / recover_rnn_seq                   *)
(*   SpecF1      compute_span_f1, and compute_srl_f1 up to its unofficial  *)
(*               results (the counting loops and _print_f1)                *)
(*   SpecScorer  compute_srl_f1 from _print_f1 on: the official scorer's    *)
(*               outputs, their parsing, the return                        *)
(*   SpecConll   print_sentence_to_conll / read_gold_predicates            *)
(*   SpecShutUp  shut_up                                                   *)
(*   SpecBatch   batch_size_fn                                             *)
(* so that a specification's Init is <one group's Init> /\ <the others'    *)
(* Idle>.                                                                  *)
(* Python indices are 0-based; sequences here are 1-based.                 *)
(***************************************************************************)
EXTENDS Integers, Sequences, FiniteSets, TLC

\* Python's None, and a tensor holding v (one entry per batch row).
None == [kind |-> "None"]
Tensor(v) == [kind |-> "tensor", v |-> v]
Tuple(h, c) == [kind |-> "tuple", h |-> h, c |-> c]

(***************************************************************************)
(* Bounds of the model.                                                    *)
(***************************************************************************)
MaxBatch == 3     \* sentences in a mini-batch
MaxSeqLen == 2    \* padded sequence length of a mini-batch
MaxSents == 2     \* sentences given to compute_span_f1 / compute_srl_f1
MaxSpans == 2     \* spans in one call, gold and predicted together
MaxCount == 2     \* counters left by the loops, where SpecScorer starts
MaxLines == 7     \* lines printed by the official scorer
MaxFields == 6    \* fields of the scorer's line of overall scores
MaxTokens == 2    \* tokens of the sentence print_sentence_to_conll writes
MaxColumns == 1   \* label columns of that sentence
MaxWordLen == 14  \* characters of a word
MaxLabelLen == 12 \* characters of a role label
MaxBlocks == 2    \* with shut_up(...) blocks entered one after the other
MaxExampleLen == 4 \* words of an example given to batch_size_fn
MaxBatchCount == 3 \* examples of one batch

VARIABLES
    \* prepare_rnn_seq / recover_rnn_seq (model_factory.py)
    rpc,          \* position in BiRecurrentConvCRF.encode
    batch_first,  \* argument batch_first
    lengths,      \* argument lengths, as given by the caller
    rnn_input,    \* rows of rnn_input: row i holds the features of sentence i
    hx,           \* hidden state: None, Tensor(h) or Tuple(h, c)
    masks,        \* None, or [kind |-> "tensor", rows, width]
    order,        \* local of prepare_rnn_seq (None when not computed)
    rev_order,    \* returned by prepare_rnn_seq
    seq,          \* the packed sequence handed to the rnn
    seq_output,   \* the packed sequence returned by the rnn
    hn,           \* the hidden state returned by the rnn
    output        \* [rows, hx] returned by recover_rnn_seq (None before)

rnnVars == <<rpc, batch_first, lengths, rnn_input, hx, masks, order,
             rev_order, seq, seq_output, hn, output>>

VARIABLES
    \* compute_span_f1 / compute_srl_f1 (eval_utils.py)
    fn,            \* the function called: "span" (compute_span_f1) or "srl"
    fpc,           \* position in the function
    gold_data,     \* argument gold_data (gold_srl of compute_srl_f1)
    predictions,   \* argument predictions
    sent,          \* index of the sentence of the outer loop
    todo,          \* keys of gold.items() not yet visited (compute_srl_f1)
    pred_id,       \* the key of gold.items() being visited
    a0,            \* index of a0 in the gold spans of the inner loops
    a1,            \* index of a1 in the predicted spans of the inner loops
    total_gold,
    total_predicted,
    total_matched,
    total_unlabeled_matched,
    label_confusions,
    gold_rels,
    pred_rels,
    matched,
    comp_sents,
    f1_result      \* what the function returns (None before)

f1Vars == <<fn, fpc, gold_data, predictions, sent, todo, pred_id, a0, a1,
            total_gold, total_predicted, total_matched,
            total_unlabeled_matched, label_confusions, gold_rels, pred_rels,
            matched, comp_sents, f1_result>>

VARIABLES
    \* compute_srl_f1, lines 176-210 (eval_utils.py)
    eval_info,        \* output of the first run of the scorer, as lines
    eval_info2,       \* output of the second run
    conll_recall,
    conll_precision,
    conll_f1,
    printed,          \* what lines 187-205 print
    srl_result        \* what compute_srl_f1 returns or raises (None before)

scorerVars == <<eval_info, eval_info2, conll_recall, conll_precision,
               conll_f1, printed, srl_result>>

VARIABLES
    \* print_sentence_to_conll / read_gold_predicates (eval_utils.py)
    cpc,              \* "print", "read" or "done"
    tokens,           \* argument tokens: a sequence of strings
    labels,           \* argument labels: a sequence of label columns
    fout,             \* the text of the file, a sequence of characters
    gold_predicates   \* what read_gold_predicates returns

conllVars == <<cpc, tokens, labels, fout, gold_predicates>>

VARIABLES
    \* shut_up (eval_utils.py)
    spc,              \* "call", "body" (inside the with block) or "left"
    stderr,           \* argument stderr
    stdout,           \* argument stdout
    fds,              \* local fds
    null_fds,         \* local null_fds
    output_fds,       \* local output_fds
    fd_table,         \* the process's descriptors: what each refers to
    entry_table,      \* fd_table as it was when the block was entered
    blocks            \* with blocks entered so far

shutVars == <<spc, stderr, stdout, fds, null_fds, output_fds, fd_table,
             entry_table, blocks>>

VARIABLES
    \* batch_size_fn (model_factory.py)
    max_length,       \* the attribute batch_size_fn.max_length, None if unset
    count,            \* argument count of the last call, 0 before any call
    minibatch,        \* the caller's batch: the examples given since count 1
    elements,         \* what the last call returned
    longest_before    \* longest example of the batches before this one

batchVars == <<max_length, count, minibatch, elements, longest_before>>

\* What the actions of one group leave unchanged: the other groups.
rnnRest == <<f1Vars, scorerVars, conllVars, shutVars, batchVars>>
f1Rest == <<rnnVars, scorerVars, conllVars, shutVars, batchVars>>
scorerRest == <<rnnVars, conllVars, shutVars, batchVars>>
conllRest == <<rnnVars, f1Vars, scorerVars, shutVars, batchVars>>
shutRest == <<rnnVars, f1Vars, scorerVars, conllVars, batchVars>>
batchRest == <<rnnVars, f1Vars, scorerVars, conllVars, shutVars>>

vars == <<rnnVars, f1Vars, scorerVars, conllVars, shutVars, batchVars>>

(***************************************************************************)
(* Helpers on sequences.                                                   *)
(***************************************************************************)
Indices(s) == 1..Len(s)

Perms(n) == {p \in [1..n -> 1..n] : \A i, j \in 1..n : i # j => p[i] # p[j]}

SeqMax(s) == CHOOSE m \in {s[i] : i \in Indices(s)} :
                 \A i \in Indices(s) : s[i] <= m

IsDescending(s) == \A i, j \in Indices(s) : i < j => s[i] >= s[j]

(***************************************************************************)
(* torch primitives used by the two helpers.                               *)
(***************************************************************************)
\* tensor.index_select(dim, index) along the batch dimension:
\* row i of the result is row index[i] of the tensor.
IndexSelect(t, index) == [i \in Indices(index) |-> t[index[i]]]

\* torch.sort(t, descending=True): every index tensor that sorts t is a
\* possible result, since the sort is not stable and ties may come out in
\* any order.
SortDescending(t) ==
    {p \in Perms(Len(t)) : IsDescending([i \in Indices(t) |-> t[p[i]]])}

\* The index tensor of torch.sort(t) (ascending).
SortAscending(t) ==
    {p \in Perms(Len(t)) :
        \A i, j \in Indices(t) : i < j => t[p[i]] <= t[p[j]]}

\* rnn_utils.pack_padded_sequence: row i keeps its first lens[i] steps.
PackPaddedSequence(rows, lens) ==
    [i \in Indices(rows) |-> [sent |-> rows[i], len |-> lens[i]]]

\* rnn_utils.pad_packed_sequence: the rows come back in the packed order,
\* padded to the longest one.
PadPackedSequence(packed) ==
    [i \in Indices(packed) |->
        [sent |-> packed[i].sent, len |-> packed[i].len,
         init |-> packed[i].init,
         width |-> SeqMax([k \in Indices(packed) |-> packed[k].len])]]

(***************************************************************************)
(* prepare_rnn_seq                                                         *)
(***************************************************************************)
\* check_decreasing(lengths): the set of its possible results, None or
\* <<lens, order, rev_order>>.  lens, the sorted values, is the same for
\* every index tensor the sort may return.
CheckDecreasingNeverSkips(lens_in) ==
    {<<IndexSelect(lens_in, x[1]), x[1], x[2]>> :
        x \in {y \in SortDescending(lens_in) \X Perms(Len(lens_in)) :
                  y[2] \in SortAscending(y[1])}}

CheckDecreasingRevIsOrder(lens_in) ==
    IF \A o \in SortDescending(lens_in) : IndexSelect(lens_in, o) = lens_in
    THEN {None}
    ELSE {<<IndexSelect(lens_in, o), o, o>> : o \in SortDescending(lens_in)}

CheckDecreasing(lens_in) ==
    IF \A o \in SortDescending(lens_in) : IndexSelect(lens_in, o) = lens_in
    THEN {None}
    ELSE {<<IndexSelect(lens_in, x[1]), x[1], x[2]>> :
            x \in {y \in SortDescending(lens_in) \X Perms(Len(lens_in)) :
                      y[2] \in SortAscending(y[1])}}

\* hx.index_select(1, index), for a tensor, an (hx, cx) tuple or None.
HxSelect(h, index) ==
    CASE h = None -> h
      [] h.kind = "tensor" -> Tensor(IndexSelect(h.v, index))
      [] h.kind = "tuple" -> Tuple(IndexSelect(h.h, index),
                                   IndexSelect(h.c, index))

\* masks[:, :lens[0]] (or masks[:lens[0]]): the rows stay, the width is cut.
CutMasks(m, lens) ==
    IF m = None THEN None
    ELSE [m EXCEPT !.width = IF m.width < lens[1] THEN m.width ELSE lens[1]]

PrepareRnnSeq ==
    /\ rpc = "start"
    /\ \E res \in CheckDecreasing(lengths) :
          IF res = None
          THEN /\ order' = None
               /\ rev_order' = None
               /\ rnn_input' = rnn_input
               /\ hx' = hx
               /\ seq' = PackPaddedSequence(rnn_input, lengths)
               /\ masks' = CutMasks(masks, lengths)
          ELSE /\ order' = Tensor(res[2])
               /\ rev_order' = Tensor(res[3])
               /\ rnn_input' = IndexSelect(rnn_input, res[2])
               /\ hx' = HxSelect(hx, res[2])
               /\ seq' = PackPaddedSequence(IndexSelect(rnn_input, res[2]),
                                            res[1])
               /\ masks' = CutMasks(masks, res[1])
    /\ rpc' = "prepared"
    /\ UNCHANGED <<batch_first, lengths, seq_output, hn, output>>
    /\ UNCHANGED rnnRest

(***************************************************************************)
(* self.rnn(seq_input, hx=hx), a recurrent layer (nn.LSTM in               *)
(* BiRecurrentConvCRF): row i of its result and entry i of its final       *)
(* hidden state are computed from row i of the packed input and entry i of *)
(* the initial hidden state (0 stands for the zero state used when hx is   *)
(* None).  A layer given a tensor returns a tensor, a layer given a tuple  *)
(* returns a tuple, a layer given None returns either.                     *)
(***************************************************************************)
InitialOf(h, i) ==
    CASE h = None -> [h |-> 0, c |-> 0]
      [] h.kind = "tensor" -> [h |-> h.v[i], c |-> 0]
      [] h.kind = "tuple" -> [h |-> h.h[i], c |-> h.c[i]]

RnnOutput(packed, h) ==
    [i \in Indices(packed) |->
        [sent |-> packed[i].sent, len |-> packed[i].len,
         init |-> InitialOf(h, i).h]]

RnnHidden(packed, h) ==
    LET hs == [i \in Indices(packed) |->
                  [sent |-> packed[i].sent, init |-> InitialOf(h, i).h]]
        cs == [i \in Indices(packed) |->
                  [sent |-> packed[i].sent, init |-> InitialOf(h, i).c]]
    IN  CASE h = None -> {Tensor(hs), Tuple(hs, cs)}
          [] h.kind = "tensor" -> {Tensor(hs)}
          [] h.kind = "tuple" -> {Tuple(hs, cs)}

Rnn ==
    /\ rpc = "prepared"
    /\ seq_output' = RnnOutput(seq, hx)
    /\ hn' \in RnnHidden(seq, hx)
    /\ rpc' = "ran"
    /\ UNCHANGED <<batch_first, lengths, rnn_input, hx, masks, order,
                   rev_order, seq, output>>
    /\ UNCHANGED rnnRest

(***************************************************************************)
(* recover_rnn_seq                                                         *)
(***************************************************************************)
RecoverOutput(padded, rev) ==
    IF rev # None THEN IndexSelect(padded, rev.v) ELSE padded

RecoverHx(h, rev) ==
    IF rev # None THEN HxSelect(h, rev.v) ELSE h

RecoverRnnSeq ==
    /\ rpc = "ran"
    /\ output' = [kind |-> "result",
                  rows |-> RecoverOutput(PadPackedSequence(seq_output),
                                         rev_order),
                  hx |-> RecoverHx(hn, rev_order)]
    /\ rpc' = "recovered"
    /\ UNCHANGED <<batch_first, lengths, rnn_input, hx, masks, order,
                   rev_order, seq, seq_output, hn>>
    /\ UNCHANGED rnnRest

(***************************************************************************)
(* The calls of encode: any batch, any lengths that fit the padded width.  *)
(***************************************************************************)
Batches == UNION {[1..n -> 1..MaxSeqLen] : n \in 1..MaxBatch}

Identity(n) == [i \in 1..n |-> i]

RnnInit ==
    /\ rpc = "start"
    /\ batch_first \in BOOLEAN
    /\ lengths \in Batches
    /\ rnn_input = Identity(Len(lengths))
    /\ hx \in {None, Tensor(Identity(Len(lengths))),
                Tuple(Identity(Len(lengths)), Identity(Len(lengths)))}
    /\ masks \in {None} \cup
                 {[kind |-> "tensor", rows |-> Identity(Len(lengths)),
                   width |-> w] : w \in SeqMax(lengths)..MaxSeqLen}
    /\ order = None
    /\ rev_order = None
    /\ seq = <<>>
    /\ seq_output = <<>>
    /\ hn = None
    /\ output = None

RnnNext == PrepareRnnSeq \/ Rnn \/ RecoverRnnSeq

RnnIdle ==
    /\ rpc = "idle"
    /\ batch_first = FALSE
    /\ lengths = <<>>
    /\ rnn_input = <<>>
    /\ hx = None
    /\ masks = None
    /\ order = None
    /\ rev_order = None
    /\ seq = <<>>
    /\ seq_output = <<>>
    /\ hn = None
    /\ output = None

\* ======================= END OF RNN MODEL =======================

(***************************************************************************)
(* Python numbers.  The scores are floats; they are kept here as exact     *)
(* fractions [num, den] in lowest terms.  Division by zero raises          *)
(* ZeroDivisionError.                                                      *)
(***************************************************************************)
ZeroDivisionError == [err |-> "ZeroDivisionError"]

RECURSIVE Gcd(_, _)
Gcd(a, b) == IF b = 0 THEN a ELSE Gcd(b, a % b)

Frac(n, d) == LET g == Gcd(n, d) IN [num |-> n \div g, den |-> d \div g]

Num(n) == [num |-> n, den |-> 1]

Times(x, y) == Frac(x.num * y.num, x.den * y.den)

Plus(x, y) == Frac(x.num * y.den + y.num * x.den, x.den * y.den)

Divide(x, y) ==
    IF y.num = 0 THEN ZeroDivisionError
    ELSE Frac(x.num * y.den, x.den * y.num)

IsPositive(x) == x.num > 0

LessEq(x, y) == x.num * y.den <= y.num * x.den

\* The harmonic mean without the test of its denominator.
F1OfUnguarded(precision, recall) ==
    Divide(Times(Times(Num(2), precision), recall), Plus(precision, recall))

(***************************************************************************)
(* _print_f1: the triple (precision, recall, f1), or the exception a       *)
(* division raised.                                                        *)
(***************************************************************************)
F1Of(precision, recall) ==
    IF IsPositive(Plus(precision, recall))
    THEN Divide(Times(Times(Num(2), precision), recall),
                Plus(precision, recall))
    ELSE Num(0)

PrintF1(gold_n, predicted_n, matched_n) ==
    LET precision == IF predicted_n > 0
                     THEN Divide(Times(Num(100), Num(matched_n)),
                                 Num(predicted_n))
                     ELSE Num(0)
        recall == IF gold_n > 0
                  THEN Divide(Times(Num(100), Num(matched_n)), Num(gold_n))
                  ELSE Num(0)
    IN  IF precision = ZeroDivisionError \/ recall = ZeroDivisionError
        THEN ZeroDivisionError
        ELSE IF F1Of(precision, recall) = ZeroDivisionError
             THEN ZeroDivisionError
             ELSE [precision |-> precision, recall |-> recall,
                   f1 |-> F1Of(precision, recall)]

(***************************************************************************)
(* Spans (start, end, label) and the arguments of a call.                  *)
(***************************************************************************)
Places == {<<0, 0>>, <<0, 1>>}

Labels == {"ARG0", "V", "C-V"}

Spans == {<<pl[1], pl[2], l>> : pl \in Places, l \in Labels}

PredIds == {0, 1}

\* a0[0] == a1[0] and a0[1] == a1[1]
SameSpanStartOnly(x, y) == x[1] = y[1]

SameSpan(x, y) == x[1] = y[1] /\ x[2] = y[2]

\* a0[2] == a1[2]
SameLabel(x, y) == x[3] = y[3]

\* total_unlabeled_matched after lines 74-75 (140-141) for the pair (x, y)
UnlabeledAfterOnlyMismatch(n, x, y) ==
    IF SameSpan(x, y) /\ ~SameLabel(x, y) THEN n + 1 ELSE n

UnlabeledAfter(n, x, y) == IF SameSpan(x, y) THEN n + 1 ELSE n

\* label_confusions.update([(a0[2], a1[2]), ])
ConfusionsAfter(c, x, y) ==
    IF SameSpan(x, y) THEN [c EXCEPT ![<<x[3], y[3]>>] = @ + 1] ELSE c

\* [a for a in gold_args if a[2] not in ["V", "C-V"]]
FilteredGoldArgs(args) ==
    SelectSeq(args, LAMBDA a : a[3] \notin {"V", "C-V"})

\* [a for a in args if a[2] not in ["V"]]
FilteredArgs(args) == SelectSeq(args, LAMBDA a : a[3] \notin {"V"})

\* The lists the inner loops run over.
GoldArgs ==
    IF fn = "span" THEN gold_data[sent]
    ELSE FilteredGoldArgs(gold_data[sent][pred_id])

PredArgs ==
    IF fn = "span" THEN predictions[sent] ELSE predictions[sent][pred_id]

LastPair == a1 >= Len(PredArgs) /\ a0 >= Len(GoldArgs)

\* The next pair (a0, a1) of "for a0 in gold: for a1 in pred".
NextPair ==
    IF a1 < Len(PredArgs) THEN a0' = a0 /\ a1' = a1 + 1
    ELSE IF a0 < Len(GoldArgs) THEN a0' = a0 + 1 /\ a1' = 1
    ELSE a0' = 0 /\ a1' = 0

(***************************************************************************)
(* compute_span_f1                                                         *)
(***************************************************************************)
\* Lines 67-71: the next sentence, or the end of the outer loop.
SpanSentence ==
    /\ fn = "span" /\ fpc = "sentence"
    /\ IF sent <= Len(gold_data)
       THEN /\ total_gold' = total_gold + Len(gold_data[sent])
            /\ total_predicted' = total_predicted + Len(predictions[sent])
            /\ IF Len(gold_data[sent]) > 0 /\ Len(predictions[sent]) > 0
               THEN a0' = 1 /\ a1' = 1 /\ fpc' = "compare" /\ sent' = sent
               ELSE a0' = 0 /\ a1' = 0 /\ fpc' = "sentence"
                    /\ sent' = sent + 1
       ELSE /\ fpc' = "print"
            /\ UNCHANGED <<total_gold, total_predicted, a0, a1, sent>>
    /\ UNCHANGED <<fn, gold_data, predictions, todo, pred_id, total_matched,
                   total_unlabeled_matched, label_confusions, gold_rels,
                   pred_rels, matched, comp_sents, f1_result>>
    /\ UNCHANGED f1Rest

\* Lines 74-76.
SpanCompare ==
    /\ fn = "span" /\ fpc = "compare"
    /\ total_unlabeled_matched' =
          UnlabeledAfter(total_unlabeled_matched, GoldArgs[a0], PredArgs[a1])
    /\ label_confusions' =
          ConfusionsAfter(label_confusions, GoldArgs[a0], PredArgs[a1])
    /\ IF SameSpan(GoldArgs[a0], PredArgs[a1])
       THEN fpc' = "label" /\ UNCHANGED <<a0, a1, sent>>
       ELSE /\ NextPair
            /\ fpc' = IF LastPair THEN "sentence" ELSE "compare"
            /\ sent' = IF LastPair THEN sent + 1 ELSE sent
    /\ UNCHANGED <<fn, gold_data, predictions, todo, pred_id, total_gold,
                   total_predicted, total_matched, gold_rels, pred_rels,
                   matched, comp_sents, f1_result>>
    /\ UNCHANGED f1Rest

\* Lines 77-78.
SpanLabel ==
    /\ fn = "span" /\ fpc = "label"
    /\ total_matched' = IF SameLabel(GoldArgs[a0], PredArgs[a1])
                        THEN total_matched + 1 ELSE total_matched
    /\ NextPair
    /\ fpc' = IF LastPair THEN "sentence" ELSE "compare"
    /\ sent' = IF LastPair THEN sent + 1 ELSE sent
    /\ UNCHANGED <<fn, gold_data, predictions, todo, pred_id, total_gold,
                   total_predicted, total_unlabeled_matched, label_confusions,
                   gold_rels, pred_rels, matched, comp_sents, f1_result>>
    /\ UNCHANGED f1Rest

\* Lines 79-84: the two calls of _print_f1 and the return.
SpanReturn ==
    /\ fn = "span" /\ fpc = "print"
    /\ LET labeled == PrintF1(total_gold, total_predicted, total_matched)
           unlabeled == PrintF1(total_gold, total_predicted,
                                total_unlabeled_matched)
       IN  IF labeled = ZeroDivisionError \/ unlabeled = ZeroDivisionError
           THEN /\ f1_result' = ZeroDivisionError
                /\ fpc' = "raised"
           ELSE /\ f1_result' = [labeled |-> labeled, unlabeled |-> unlabeled,
                                 label_confusions |-> label_confusions,
                                 comp_sents |-> comp_sents]
                /\ fpc' = "returned"
    /\ UNCHANGED <<fn, gold_data, predictions, sent, todo, pred_id, a0, a1,
                   total_gold, total_predicted, total_matched,
                   total_unlabeled_matched, label_confusions, gold_rels,
                   pred_rels, matched, comp_sents>>
    /\ UNCHANGED f1Rest

(***************************************************************************)
(* compute_srl_f1, lines 118-158                                           *)
(***************************************************************************)
\* Lines 127-130: the next sentence, or the end of the outer loop.
SrlSentence ==
    /\ fn = "srl" /\ fpc = "sentence"
    /\ IF sent <= Len(gold_data)
       THEN /\ gold_rels' = 0 /\ pred_rels' = 0 /\ matched' = 0
            /\ todo' = DOMAIN gold_data[sent]
            /\ fpc' = "predicate"
       ELSE /\ fpc' = "print"
            /\ UNCHANGED <<gold_rels, pred_rels, matched, todo>>
    /\ UNCHANGED <<fn, gold_data, predictions, sent, pred_id, a0, a1,
                   total_gold, total_predicted, total_matched,
                   total_unlabeled_matched, label_confusions, comp_sents,
                   f1_result>>
    /\ UNCHANGED f1Rest

\* Lines 131-137: the next item of gold.items(), in the order of the dict.
SrlPredicate ==
    /\ fn = "srl" /\ fpc = "predicate"
    /\ \E k \in todo :
          LET filtered_gold_args == FilteredGoldArgs(gold_data[sent][k])
          IN  /\ todo' = todo \ {k}
              /\ pred_id' = k
              /\ total_gold' = total_gold + Len(filtered_gold_args)
              /\ gold_rels' = gold_rels + Len(filtered_gold_args)
              /\ IF /\ k \in DOMAIN predictions[sent]
                    /\ Len(filtered_gold_args) > 0
                    /\ Len(predictions[sent][k]) > 0
                 THEN a0' = 1 /\ a1' = 1 /\ fpc' = "compare"
                 ELSE a0' = 0 /\ a1' = 0 /\ fpc' = "predicate"
    /\ UNCHANGED <<fn, gold_data, predictions, sent, total_predicted,
                   total_matched, total_unlabeled_matched, label_confusions,
                   pred_rels, matched, comp_sents, f1_result>>
    /\ UNCHANGED f1Rest

\* Lines 140-142.
SrlCompare ==
    /\ fn = "srl" /\ fpc = "compare"
    /\ total_unlabeled_matched' =
          UnlabeledAfter(total_unlabeled_matched, GoldArgs[a0], PredArgs[a1])
    /\ label_confusions' =
          ConfusionsAfter(label_confusions, GoldArgs[a0], PredArgs[a1])
    /\ IF SameSpan(GoldArgs[a0], PredArgs[a1])
       THEN fpc' = "label" /\ UNCHANGED <<a0, a1>>
       ELSE /\ NextPair
            /\ fpc' = IF LastPair THEN "predicate" ELSE "compare"
    /\ UNCHANGED <<fn, gold_data, predictions, sent, todo, pred_id,
                   total_gold, total_predicted, total_matched, gold_rels,
                   pred_rels, matched, comp_sents, f1_result>>
    /\ UNCHANGED f1Rest

\* Lines 143-145.
SrlLabel ==
    /\ fn = "srl" /\ fpc = "label"
    /\ IF SameLabel(GoldArgs[a0], PredArgs[a1])
       THEN total_matched' = total_matched + 1 /\ matched' = matched + 1
       ELSE UNCHANGED <<total_matched, matched>>
    /\ NextPair
    /\ fpc' = IF LastPair THEN "predicate" ELSE "compare"
    /\ UNCHANGED <<fn, gold_data, predictions, sent, todo, pred_id,
                   total_gold, total_predicted, total_unlabeled_matched,
                   label_confusions, gold_rels, pred_rels, comp_sents,
                   f1_result>>
    /\ UNCHANGED f1Rest

\* sum(len(filtered_args) for args in prediction.values())
RECURSIVE SumFilteredArgs(_, _)
SumFilteredArgs(prediction, keys) ==
    IF keys = {} THEN 0
    ELSE LET k == CHOOSE x \in keys : TRUE
         IN  Len(FilteredArgs(prediction[k]))
                + SumFilteredArgs(prediction, keys \ {k})

\* Lines 146-152, once gold.items() is exhausted.
SrlEndSentence ==
    /\ fn = "srl" /\ fpc = "predicate" /\ todo = {}
    /\ LET n == SumFilteredArgs(predictions[sent], DOMAIN predictions[sent])
       IN  /\ total_predicted' = total_predicted + n
           /\ pred_rels' = pred_rels + n
           /\ comp_sents' = IF gold_rels = matched /\ pred_rels + n = matched
                            THEN comp_sents + 1 ELSE comp_sents
    /\ sent' = sent + 1
    /\ fpc' = "sentence"
    /\ UNCHANGED <<fn, gold_data, predictions, todo, pred_id, a0, a1,
                   total_gold, total_matched, total_unlabeled_matched,
                   label_confusions, gold_rels, matched, f1_result>>
    /\ UNCHANGED f1Rest

\* Lines 154-158: the two calls of _print_f1; their results are what lines
\* 207-210 return as result and ul_result.
SrlPrintF1 ==
    /\ fn = "srl" /\ fpc = "print"
    /\ LET labeled == PrintF1(total_gold, total_predicted, total_matched)
           unlabeled == PrintF1(total_gold, total_predicted,
                                total_unlabeled_matched)
       IN  IF labeled = ZeroDivisionError \/ unlabeled = ZeroDivisionError
           THEN /\ f1_result' = ZeroDivisionError
                /\ fpc' = "raised"
           ELSE /\ f1_result' = [labeled |-> labeled, unlabeled |-> unlabeled,
                                 label_confusions |-> label_confusions,
                                 comp_sents |-> comp_sents]
                /\ fpc' = "official"
    /\ UNCHANGED <<fn, gold_data, predictions, sent, todo, pred_id, a0, a1,
                   total_gold, total_predicted, total_matched,
                   total_unlabeled_matched, label_confusions, gold_rels,
                   pred_rels, matched, comp_sents>>
    /\ UNCHANGED f1Rest

(***************************************************************************)
(* The calls: up to MaxSents sentences holding up to MaxSpans spans, gold  *)
(* and predicted together.  A slot is one list of spans of the arguments:  *)
(* (side, sentence) for compute_span_f1, (side, sentence, predicate) for   *)
(* compute_srl_f1.                                                         *)
(***************************************************************************)
Sides == {"gold", "pred"}

RECURSIVE TotalLen(_, _)
TotalLen(c, slots) ==
    IF slots = {} THEN 0
    ELSE LET s == CHOOSE x \in slots : TRUE
         IN  Len(c[s]) + TotalLen(c, slots \ {s})

\* Every way of putting up to k spans in the lists of slots.
RECURSIVE Fill(_, _)
Fill(slots, k) ==
    IF k = 0 THEN {[s \in slots |-> <<>>]}
    ELSE LET less == Fill(slots, k - 1)
         IN  less \cup
             {[c EXCEPT ![x[1]] = Append(@, x[2])] :
                 <<c, x>> \in {c \in less : TotalLen(c, slots) = k - 1}
                              \X (slots \X Spans)}

SpanSlots(n) == Sides \X (1..n)

SrlSlots(n) == Sides \X (1..n) \X PredIds

\* The dict of one side of one sentence: the predicates that have spans,
\* or (dense) every predicate.
SrlDict(c, side, s, dense) ==
    [p \in {q \in PredIds : dense \/ Len(c[<<side, s, q>>]) > 0} |->
        c[<<side, s, p>>]]

F1Start ==
    /\ fpc = "sentence"
    /\ sent = 1
    /\ todo = {}
    /\ pred_id = 0
    /\ a0 = 0
    /\ a1 = 0
    /\ total_gold = 0
    /\ total_predicted = 0
    /\ total_matched = 0
    /\ total_unlabeled_matched = 0
    /\ label_confusions = [lp \in Labels \X Labels |-> 0]
    /\ gold_rels = 0
    /\ pred_rels = 0
    /\ matched = 0
    /\ comp_sents = 0
    /\ f1_result = None

F1Init ==
    /\ fn \in {"span", "srl"}
    /\ \E n \in 0..MaxSents :
          IF fn = "span"
          THEN \E c \in Fill(SpanSlots(n), MaxSpans) :
                  /\ gold_data = [s \in 1..n |-> c[<<"gold", s>>]]
                  /\ predictions = [s \in 1..n |-> c[<<"pred", s>>]]
          ELSE \E c \in Fill(SrlSlots(n), MaxSpans), gd, pd \in BOOLEAN :
                  /\ gold_data = [s \in 1..n |-> SrlDict(c, "gold", s, gd)]
                  /\ predictions = [s \in 1..n |-> SrlDict(c, "pred", s, pd)]
    /\ F1Start

F1Next ==
    \/ SpanSentence \/ SpanCompare \/ SpanLabel \/ SpanReturn
    \/ SrlSentence \/ SrlPredicate \/ SrlCompare \/ SrlLabel
    \/ SrlEndSentence \/ SrlPrintF1

F1Idle ==
    /\ fn = "idle"
    /\ gold_data = <<>>
    /\ predictions = <<>>
    /\ F1Start

\* ======================= END OF F1 MODEL =======================

(***************************************************************************)
(* compute_srl_f1, lines 176-210: the official scorer's two outputs, their *)
(* parsing and the return.  SpecScorer starts at line 154, the counting    *)
(* loops done and their counters holding any values (the spans that led to *)
(* them are left out), and runs SrlPrintF1 and the actions below.          *)
(***************************************************************************)
IndexError == [err |-> "IndexError"]

ValueError == [err |-> "ValueError"]

\* The indices of lines 189 and 191 (0-based).
LineIndex == 6
FieldIndex == 5

\* float(s) for the fields the model gives the scorer's output.
Float(s) ==
    CASE s = "0.00" -> Num(0)
      [] s = "50.00" -> Num(50)
      [] s = "100.00" -> Num(100)
      [] OTHER -> ValueError

\* A text is the sequence of its lines, a line the sequence of its
\* whitespace-separated fields; <<>> is a blank line.
\* text.strip().split("\n"): the blank lines at both ends are dropped, and
\* the empty string splits into one empty line.
RECURSIVE DropLeadingBlank(_)
DropLeadingBlank(text) ==
    IF text # <<>> /\ Head(text) = <<>> THEN DropLeadingBlank(Tail(text))
    ELSE text

RECURSIVE DropTrailingBlank(_)
DropTrailingBlank(text) ==
    IF text # <<>> /\ text[Len(text)] = <<>>
    THEN DropTrailingBlank(SubSeq(text, 1, Len(text) - 1))
    ELSE text

StripSplit(text) ==
    LET stripped == DropTrailingBlank(DropLeadingBlank(text))
    IN  IF stripped = <<>> THEN << <<>> >> ELSE stripped

\* float(text.strip().split("\n")[6].strip().split()[5]): the number, or
\* the exception raised.
ParseScore(text) ==
    LET lines == StripSplit(text)
    IN  IF Len(lines) < LineIndex + 1 THEN IndexError
        ELSE IF Len(lines[LineIndex + 1]) < FieldIndex + 1 THEN IndexError
        ELSE Float(lines[LineIndex + 1][FieldIndex + 1])

\* except IndexError (line 201)
CaughtAnyException(exc) == exc \in {IndexError, ValueError}

Caught(exc) == exc = IndexError

\* Lines 192-196.
ConllF1(recall, precision) ==
    IF IsPositive(Plus(recall, precision))
    THEN Divide(Times(Times(Num(2), recall), precision),
                Plus(recall, precision))
    ELSE Num(0)

\* Lines 177-185: the two runs of the scorer, whose outputs are whatever
\* the Perl script and the shell print.
ScoreFields == {"0.00", "50.00", "%"}

OverallLine(k, v) ==
    SubSeq(<<"Overall", "10", "0", "0", "100.00", v, "100.00", "-">>, 1, k)

ScorerText(lead, n, k, v) ==
    [j \in 1..(lead + n) |->
        IF j <= lead THEN <<>>
        ELSE IF j - lead = LineIndex + 1 THEN OverallLine(k, v)
        ELSE <<"line">>]

ScorerOutputs ==
    {ScorerText(lead, n, k, v) :
        lead \in 0..1, n \in 0..MaxLines, k \in 0..MaxFields,
        v \in ScoreFields}

RunScorer ==
    /\ fn = "srl" /\ fpc = "official"
    /\ eval_info' \in ScorerOutputs
    /\ eval_info2' \in ScorerOutputs
    /\ fpc' = "parse_recall"
    /\ UNCHANGED <<conll_recall, conll_precision, conll_f1, printed,
                   srl_result>>
    /\ UNCHANGED <<fn, gold_data, predictions, sent, todo, pred_id, a0, a1,
                   total_gold, total_predicted, total_matched,
                   total_unlabeled_matched, label_confusions, gold_rels,
                   pred_rels, matched, comp_sents, f1_result>>
    /\ UNCHANGED scorerRest

\* What an exception raised in the try block does: the except clause runs,
\* or the exception leaves compute_srl_f1.
Raise(exc) ==
    IF Caught(exc)
    THEN fpc' = "except" /\ srl_result' = srl_result
    ELSE fpc' = "raised" /\ srl_result' = exc

\* Lines 188-189.
ParseRecall ==
    /\ fn = "srl" /\ fpc = "parse_recall"
    /\ IF ParseScore(eval_info) \in {IndexError, ValueError}
       THEN Raise(ParseScore(eval_info)) /\ UNCHANGED conll_recall
       ELSE /\ conll_recall' = ParseScore(eval_info)
            /\ fpc' = "parse_precision"
            /\ UNCHANGED srl_result
    /\ UNCHANGED <<eval_info, eval_info2, conll_precision, conll_f1,
                   printed>>
    /\ UNCHANGED <<fn, gold_data, predictions, sent, todo, pred_id, a0, a1,
                   total_gold, total_predicted, total_matched,
                   total_unlabeled_matched, label_confusions, gold_rels,
                   pred_rels, matched, comp_sents, f1_result>>
    /\ UNCHANGED scorerRest

\* Lines 190-191.
ParsePrecision ==
    /\ fn = "srl" /\ fpc = "parse_precision"
    /\ IF ParseScore(eval_info2) \in {IndexError, ValueError}
       THEN Raise(ParseScore(eval_info2)) /\ UNCHANGED conll_precision
       ELSE /\ conll_precision' = ParseScore(eval_info2)
            /\ fpc' = "conll_f1"
            /\ UNCHANGED srl_result
    /\ UNCHANGED <<eval_info, eval_info2, conll_recall, conll_f1, printed>>
    /\ UNCHANGED <<fn, gold_data, predictions, sent, todo, pred_id, a0, a1,
                   total_gold, total_predicted, total_matched,
                   total_unlabeled_matched, label_confusions, gold_rels,
                   pred_rels, matched, comp_sents, f1_result>>
    /\ UNCHANGED scorerRest

\* Lines 192-196.
ComputeConllF1 ==
    /\ fn = "srl" /\ fpc = "conll_f1"
    /\ IF ConllF1(conll_recall, conll_precision) = ZeroDivisionError
       THEN /\ fpc' = "raised"
            /\ srl_result' = ZeroDivisionError
            /\ UNCHANGED conll_f1
       ELSE /\ conll_f1' = ConllF1(conll_recall, conll_precision)
            /\ fpc' = "return"
            /\ UNCHANGED srl_result
    /\ UNCHANGED <<eval_info, eval_info2, conll_recall, conll_precision,
                   printed>>
    /\ UNCHANGED <<fn, gold_data, predictions, sent, todo, pred_id, a0, a1,
                   total_gold, total_predicted, total_matched,
                   total_unlabeled_matched, label_confusions, gold_rels,
                   pred_rels, matched, comp_sents, f1_result>>
    /\ UNCHANGED scorerRest

\* Lines 201-205.
ExceptIndexError ==
    /\ fn = "srl" /\ fpc = "except"
    /\ conll_recall' = Num(0)
    /\ conll_precision' = Num(0)
    /\ conll_f1' = Num(0)
    /\ printed' = Append(printed, "Unable to get FScore. Skipping.")
    /\ fpc' = "return"
    /\ UNCHANGED <<eval_info, eval_info2, srl_result>>
    /\ UNCHANGED <<fn, gold_data, predictions, sent, todo, pred_id, a0, a1,
                   total_gold, total_predicted, total_matched,
                   total_unlabeled_matched, label_confusions, gold_rels,
                   pred_rels, matched, comp_sents, f1_result>>
    /\ UNCHANGED scorerRest

\* Lines 207-210.
SrlReturn ==
    /\ fn = "srl" /\ fpc = "return"
    /\ srl_result' =
          [result |-> f1_result.labeled,
           conll_result |-> [precision |-> conll_precision,
                             recall |-> conll_recall, f1 |-> conll_f1],
           ul_result |-> f1_result.unlabeled,
           label_confusions |-> label_confusions,
           comp_sents |-> comp_sents]
    /\ fpc' = "returned"
    /\ UNCHANGED <<eval_info, eval_info2, conll_recall, conll_precision,
                   conll_f1, printed>>
    /\ UNCHANGED <<fn, gold_data, predictions, sent, todo, pred_id, a0, a1,
                   total_gold, total_predicted, total_matched,
                   total_unlabeled_matched, label_confusions, gold_rels,
                   pred_rels, matched, comp_sents, f1_result>>
    /\ UNCHANGED scorerRest

ScorerStart ==
    /\ eval_info = <<>>
    /\ eval_info2 = <<>>
    /\ conll_recall = None
    /\ conll_precision = None
    /\ conll_f1 = None
    /\ printed = <<>>
    /\ srl_result = None

\* The counters the loops can leave, up to MaxCount: a labeled match is an
\* unlabeled match, a match is a match of a gold span, and a labeled match
\* is one of a predicted span that is counted.
ScorerInit ==
    /\ fn = "srl"
    /\ fpc = "print"
    /\ gold_data = <<>>
    /\ predictions = <<>>
    /\ sent = 1
    /\ todo = {}
    /\ pred_id = 0
    /\ a0 = 0
    /\ a1 = 0
    /\ total_gold \in 0..MaxCount
    /\ total_predicted \in 0..MaxCount
    /\ total_unlabeled_matched \in 0..MaxCount
    /\ total_matched \in 0..total_unlabeled_matched
    /\ total_unlabeled_matched > 0 => total_gold > 0
    /\ total_matched > 0 => total_predicted > 0
    /\ label_confusions = [lp \in Labels \X Labels |-> 0]
    /\ gold_rels = 0
    /\ pred_rels = 0
    /\ matched = 0
    /\ comp_sents \in 0..1
    /\ f1_result = None
    /\ ScorerStart

ScorerNext ==
    \/ SrlPrintF1 \/ RunScorer \/ ParseRecall \/ ParsePrecision
    \/ ComputeConllF1 \/ ExceptIndexError \/ SrlReturn

ScorerIdle == ScorerStart

\* ======================= END OF SCORER MODEL =======================

(***************************************************************************)
(* print_sentence_to_conll and read_gold_predicates.  A string is a        *)
(* sequence of one-character strings; the file is the sequence of the      *)
(* characters written to it.                                               *)
(***************************************************************************)
TokenWidth == 15
LabelWidth == 15

Rep(c, n) == [k \in 1..n |-> c]

\* str.ljust and str.rjust: pad with spaces up to w, never cut.
Ljust(str, w) == IF Len(str) >= w THEN str ELSE str \o Rep(" ", w - Len(str))
Rjust(str, w) == IF Len(str) >= w THEN str ELSE Rep(" ", w - Len(str)) \o str

\* The inner loop of lines 220-221: row i of every label column.
RECURSIVE LabelsText(_, _, _)
LabelsText(labs, i, c) ==
    IF c > Len(labs) THEN <<>>
    ELSE Rjust(labs[c][i], LabelWidth) \o LabelsText(labs, i, c + 1)

\* The loop of lines 218-222, from row i on.
RECURSIVE RowsText(_, _, _)
RowsText(toks, labs, i) ==
    IF i > Len(toks) THEN <<>>
    ELSE Ljust(toks[i], TokenWidth) \o LabelsText(labs, i, 1) \o <<"\n">>
         \o RowsText(toks, labs, i + 1)

\* Everything print_sentence_to_conll writes for one sentence.
PrintSentenceToConll(toks, labs) == RowsText(toks, labs, 1) \o <<"\n">>

\* The characters str.strip and str.split take for white space.
Whitespace == {" ", "\n", "\t"}

RECURSIVE LStrip(_)
LStrip(str) ==
    IF str # <<>> /\ Head(str) \in Whitespace THEN LStrip(Tail(str)) ELSE str

RECURSIVE RStrip(_)
RStrip(str) ==
    IF str # <<>> /\ str[Len(str)] \in Whitespace
    THEN RStrip(SubSeq(str, 1, Len(str) - 1))
    ELSE str

Strip(str) == RStrip(LStrip(str))

\* str.split(): the maximal runs of characters that are not white space.
RECURSIVE Split(_)
Split(str) ==
    LET rest == LStrip(str)
        stops == {k \in 1..Len(rest) : rest[k] \in Whitespace}
        stop == IF stops = {} THEN Len(rest) + 1
                ELSE CHOOSE k \in stops : \A j \in stops : k <= j
    IN  IF rest = <<>> THEN <<>>
        ELSE <<SubSeq(rest, 1, stop - 1)>>
             \o Split(SubSeq(rest, stop, Len(rest)))

\* "for line in f": the lines of the file, each with its newline.
RECURSIVE FileLines(_)
FileLines(chars) ==
    LET ends == {k \in 1..Len(chars) : chars[k] = "\n"}
        end == IF ends = {} THEN Len(chars)
               ELSE CHOOSE k \in ends : \A j \in ends : k <= j
    IN  IF chars = <<>> THEN <<>>
        ELSE <<SubSeq(chars, 1, end)>>
             \o FileLines(SubSeq(chars, end + 1, Len(chars)))

\* The loop of lines 229-235 over the remaining lines.
RECURSIVE ReadLines(_, _)
ReadLines(remaining, predicates) ==
    IF remaining = <<>> THEN predicates
    ELSE LET stripped == Strip(Head(remaining))
         IN  ReadLines(Tail(remaining),
                 IF stripped = <<>> THEN Append(predicates, <<>>)
                 ELSE [predicates EXCEPT ![Len(predicates)] =
                          Append(@, Split(stripped)[1])])

ReadGoldPredicates(chars) == ReadLines(FileLines(chars), << <<>> >>)

\* The arguments print_to_conll passes: a token is a dash or the letter P
\* and a word; a label is a star, with an opening bracket and a role label
\* before it where a span starts and a closing bracket after it where a
\* span ends.
Props == {<<"-">>} \cup {<<"P">> \o Rep("w", n) : n \in 1..MaxWordLen}

ColLabels ==
    {<<"*">>, <<"*", ")">>, <<"(", "V", "*", ")">>}
    \cup {<<"(">> \o Rep("A", n) \o <<"*">> : n \in 1..MaxLabelLen}
    \cup {<<"(">> \o Rep("A", n) \o <<"*", ")">> : n \in 1..MaxLabelLen}

ConllStart ==
    /\ cpc = "print"
    /\ fout = <<>>
    /\ gold_predicates = <<>>

ConllInit ==
    /\ ConllStart
    /\ \E n \in 0..MaxTokens :
         /\ tokens \in [1..n -> Props]
         /\ \E c \in 0..MaxColumns : labels \in [1..c -> [1..n -> ColLabels]]

ConllIdle ==
    /\ ConllStart
    /\ tokens = <<>>
    /\ labels = <<>>

\* print_sentence_to_conll(fout, tokens, labels) on a new file.
ConllPrint ==
    /\ cpc = "print"
    /\ fout' = PrintSentenceToConll(tokens, labels)
    /\ cpc' = "read"
    /\ UNCHANGED <<tokens, labels, gold_predicates>>
    /\ UNCHANGED conllRest

\* read_gold_predicates on the file written.
ConllRead ==
    /\ cpc = "read"
    /\ gold_predicates' = ReadGoldPredicates(fout)
    /\ cpc' = "done"
    /\ UNCHANGED <<tokens, labels, fout>>
    /\ UNCHANGED conllRest

ConllNext == ConllPrint \/ ConllRead

\* ======================= END OF CONLL MODEL =======================

(***************************************************************************)
(* shut_up.  fd_table maps each descriptor number to what it refers to,    *)
(* or to "closed".  os.open and os.dup return the lowest closed number.    *)
(***************************************************************************)
NumFds == 3 + 4 * MaxBlocks
FdSpace == 0..(NumFds - 1)

LowestFree(table) ==
    CHOOSE k \in FdSpace :
        table[k] = "closed" /\ \A j \in 0..(k - 1) : table[j] # "closed"

\* One new descriptor per entry of targets, in order (lines 38 and 39).
RECURSIVE Allocate(_, _, _)
Allocate(table, targets, got) ==
    IF targets = <<>> THEN [table |-> table, got |-> got]
    ELSE LET k == LowestFree(table)
         IN  Allocate([table EXCEPT ![k] = Head(targets)], Tail(targets),
                      Append(got, k))

\* os.dup2(from[i], to[i]) for i, i + 1, ... (lines 40-41).
RECURSIVE Dup2All(_, _, _, _)
Dup2All(table, from, to, i) ==
    IF i > Len(to) THEN table
    ELSE Dup2All([table EXCEPT ![to[i]] = table[from[i]]], from, to, i + 1)

\* The loop of lines 44-46 from i on: dup2(output_fd, fd), close(null_fd).
RECURSIVE Restore(_, _, _, _, _)
Restore(table, nulls, outputs, selected, i) ==
    IF i > Len(selected) THEN table
    ELSE Restore([table EXCEPT ![selected[i]] = table[outputs[i]],
                                ![nulls[i]] = "closed"],
                 nulls, outputs, selected, i + 1)

\* Line 37.
SelectedFds(err, out) ==
    (IF out THEN <<1>> ELSE <<>>) \o (IF err THEN <<2>> ELSE <<>>)

ShutUpStart ==
    /\ spc = "call"
    /\ stderr = TRUE
    /\ stdout = FALSE
    /\ fds = <<>>
    /\ null_fds = <<>>
    /\ output_fds = <<>>
    /\ blocks = 0

\* A process with standard output and standard error open.
ShutUpInit ==
    /\ ShutUpStart
    /\ \E in \in {"stdin", "closed"}, out \in {"tty", "pipe"},
          err \in {"tty", "log"} :
         fd_table = [k \in FdSpace |-> IF k = 0 THEN in
                                       ELSE IF k = 1 THEN out
                                       ELSE IF k = 2 THEN err
                                       ELSE "closed"]
    /\ entry_table = fd_table

ShutUpIdle ==
    /\ ShutUpStart
    /\ fd_table = [k \in FdSpace |-> IF k = 0 THEN "stdin"
                                     ELSE IF k \in {1, 2} THEN "tty"
                                     ELSE "closed"]
    /\ entry_table = fd_table

\* "with shut_up(stderr, stdout):" -- lines 37-42, up to the yield.
ShutUpEnter ==
    /\ spc \in {"call", "left"}
    /\ blocks < MaxBlocks
    /\ \E err \in BOOLEAN, out \in BOOLEAN :
         LET selected == SelectedFds(err, out)
             opened == Allocate(fd_table,
                                [i \in 1..Len(selected) |-> "devnull"], <<>>)
             duped == Allocate(opened.table,
                               [i \in 1..Len(selected) |->
                                    opened.table[selected[i]]], <<>>)
         IN  /\ stderr' = err
             /\ stdout' = out
             /\ fds' = selected
             /\ null_fds' = opened.got
             /\ output_fds' = duped.got
             /\ fd_table' = Dup2All(duped.table, opened.got, selected, 1)
    /\ entry_table' = fd_table
    /\ blocks' = blocks + 1
    /\ spc' = "body"
    /\ UNCHANGED shutRest

\* The block ends normally: the generator resumes after the yield and runs
\* lines 43-46.
ShutUpExit ==
    /\ spc = "body"
    /\ fd_table' = Restore(fd_table, null_fds, output_fds, fds, 1)
    /\ spc' = "left"
    /\ UNCHANGED <<stderr, stdout, fds, null_fds, output_fds, entry_table,
                   blocks>>
    /\ UNCHANGED shutRest

\* The block raises: the exception is thrown into the generator at the
\* yield of line 42, which no try statement encloses, so the generator ends
\* there and lines 43-46 do not run.
ShutUpThrow ==
    /\ spc = "body"
    /\ spc' = "left"
    /\ UNCHANGED <<stderr, stdout, fds, null_fds, output_fds, fd_table,
                   entry_table, blocks>>
    /\ UNCHANGED shutRest

ShutUpNext == ShutUpEnter \/ ShutUpExit \/ ShutUpThrow

\* ======================= END OF SHUT_UP MODEL =======================

(***************************************************************************)
(* batch_size_fn (model_factory.py).  The function keeps max_length as an  *)
(* attribute of itself, which does not exist before the first assignment.  *)
(* An example is a tuple whose first entry is its sequence of words.       *)
(***************************************************************************)
AttributeError == [err |-> "AttributeError"]

\* A Python int, so that it can be told from None and from an exception.
IntObj(n) == [kind |-> "int", v |-> n]

Max(a, b) == IF a >= b THEN a ELSE b

Examples == {<<Rep("w", n)>> : n \in 0..MaxExampleLen}

\* batch_size_fn without the assignment of line 298.
BatchSizeFnNoReset(stored, new, cnt, size_so_far) ==
    LET longest == Max(IF stored = None THEN 0 ELSE stored.v, Len(new[1]))
    IN  [max_length |-> IntObj(longest), elements |-> IntObj(cnt * longest)]

\* batch_size_fn(new, count, size_so_far) with batch_size_fn.max_length
\* holding stored: the attribute afterwards and what is returned or raised.
BatchSizeFn(stored, new, cnt, size_so_far) ==
    LET reset == IF cnt = 1 THEN IntObj(0) ELSE stored
    IN  IF reset = None
        THEN [max_length |-> None, elements |-> AttributeError]
        ELSE LET longest == Max(reset.v, Len(new[1]))
             IN  [max_length |-> IntObj(longest),
                  elements |-> IntObj(cnt * longest)]

\* The longest first entry of the examples of a batch, 0 for no example.
RECURSIVE LongestOf(_)
LongestOf(examples) ==
    IF examples = <<>> THEN 0
    ELSE Max(Len(Head(examples)[1]), LongestOf(Tail(examples)))

BatchInit ==
    /\ max_length = None
    /\ count = 0
    /\ minibatch = <<>>
    /\ elements = None
    /\ longest_before = 0

BatchIdle == BatchInit

\* The caller starts a batch: the call has count == 1.
BatchFirstCall ==
    /\ \E new \in Examples :
         LET call == BatchSizeFn(max_length, new, 1, 0)
         IN  /\ max_length' = call.max_length
             /\ elements' = call.elements
             /\ minibatch' = <<new>>
    /\ count' = 1
    /\ longest_before' = Max(longest_before, LongestOf(minibatch))
    /\ UNCHANGED batchRest

\* The caller adds an example to its batch: count is one more than before.
BatchNextCall ==
    /\ count >= 1
    /\ count < MaxBatchCount
    /\ \E new \in Examples :
         LET call == BatchSizeFn(max_length, new, count + 1, elements.v)
         IN  /\ max_length' = call.max_length
             /\ elements' = call.elements
             /\ minibatch' = Append(minibatch, new)
    /\ count' = count + 1
    /\ UNCHANGED longest_before
    /\ UNCHANGED batchRest

BatchNext == BatchFirstCall \/ BatchNextCall

\* ======================= END OF BATCH MODEL =======================


(***************************************************************************)
(* The specifications.                                                     *)
(***************************************************************************)
InitRnn == RnnInit /\ F1Idle /\ ScorerIdle /\ ConllIdle
    /\ ShutUpIdle /\ BatchIdle

SpecRnn == InitRnn /\ [][RnnNext]_vars

InitF1 == F1Init /\ RnnIdle /\ ScorerIdle /\ ConllIdle
    /\ ShutUpIdle /\ BatchIdle

SpecF1 == InitF1 /\ [][F1Next]_vars

InitScorer == ScorerInit /\ RnnIdle /\ ConllIdle /\ ShutUpIdle /\ BatchIdle

SpecScorer == InitScorer /\ [][ScorerNext]_vars

InitConll == ConllInit /\ RnnIdle /\ F1Idle /\ ScorerIdle
    /\ ShutUpIdle /\ BatchIdle

SpecConll == InitConll /\ [][ConllNext]_vars

InitShutUp == ShutUpInit /\ RnnIdle /\ F1Idle /\ ScorerIdle
    /\ ConllIdle /\ BatchIdle

SpecShutUp == InitShutUp /\ [][ShutUpNext]_vars

InitBatch ==
    BatchInit /\ RnnIdle /\ F1Idle /\ ScorerIdle /\ ConllIdle /\ ShutUpIdle

SpecBatch == InitBatch /\ [][BatchNext]_vars

\* ======================= END OF SPECIFICATIONS =======================

(***************************************************************************)
(* C1: prepare_rnn_seq followed by recover_rnn_seq restores the original   *)
(* batch order.  Whenever a reordering was applied, rev_order is the       *)
(* inverse of order, and after recover_rnn_seq row i of the output and     *)
(* entry i of the recovered hidden state (hx and cx) belong to sentence i, *)
(* carry sentence i's length and were computed from sentence i's initial   *)
(* hidden state.                                                           *)
(***************************************************************************)
HiddenInOrder(h) ==
    CASE h.kind = "tensor" ->
            \A i \in Indices(h.v) : h.v[i].sent = i /\ h.v[i].init \in {0, i}
      [] h.kind = "tuple" ->
            \A i \in Indices(h.h) :
                /\ h.h[i].sent = i /\ h.h[i].init \in {0, i}
                /\ h.c[i].sent = i /\ h.c[i].init \in {0, i}

C1_RoundTripRestoresOrder ==
    /\ rev_order # None =>
          \A i \in Indices(lengths) :
              /\ order.v[rev_order.v[i]] = i
              /\ rev_order.v[order.v[i]] = i
    /\ rpc = "recovered" =>
          /\ Len(output.rows) = Len(lengths)
          /\ \A i \in Indices(lengths) :
                /\ output.rows[i].sent = i
                /\ output.rows[i].len = lengths[i]
                /\ output.rows[i].init \in {0, i}
          /\ HiddenInOrder(output.hx)

\* A batch whose sorting permutation is not its own inverse, recovered
\* together with an (hx, cx) tuple.
C1_Witness ==
    /\ rpc = "recovered"
    /\ rev_order # None
    /\ rev_order.v # order.v
    /\ hx.kind = "tuple"
    /\ output.hx.kind = "tuple"

(***************************************************************************)
(* C2: when the lengths are already in descending order, prepare_rnn_seq   *)
(* returns rev_order = None and leaves the rows of rnn_input and the       *)
(* entries of hx in their given order, and recover_rnn_seq returns the     *)
(* padded output and the hidden state of the rnn unpermuted.               *)
(***************************************************************************)
C2_SortedSkipsReordering ==
    (IsDescending(lengths) /\ rpc # "start") =>
        /\ order = None
        /\ rev_order = None
        /\ rnn_input = Identity(Len(lengths))
        /\ hx \in {None, Tensor(Identity(Len(lengths))),
                    Tuple(Identity(Len(lengths)), Identity(Len(lengths)))}
        /\ \A i \in Indices(lengths) :
               seq[i].sent = i /\ seq[i].len = lengths[i]
        /\ rpc = "recovered" =>
               /\ output.rows = PadPackedSequence(seq_output)
               /\ output.hx = hn

\* A batch of several sentences with a tie among its descending lengths.
C2_Witness ==
    /\ rpc = "recovered"
    /\ IsDescending(lengths)
    /\ Len(lengths) >= 2
    /\ lengths[1] = lengths[2]
    /\ hx # None

(***************************************************************************)
(* Properties of the arguments of compute_span_f1 / compute_srl_f1, read   *)
(* from the arguments alone.                                               *)
(***************************************************************************)
SeqSet(q) == {q[k] : k \in DOMAIN q}

\* The spans of each side's sentence s that are compared with each other:
\* the two lists of the sentence, or the two lists of each predicate that
\* both dicts have.
ComparedLists(s) ==
    IF fn = "span" THEN {<<gold_data[s], predictions[s]>>}
    ELSE {<<gold_data[s][k], predictions[s][k]>> :
             k \in DOMAIN gold_data[s] \cap DOMAIN predictions[s]}

AllLists(data) ==
    IF fn = "span" THEN SeqSet(data)
    ELSE UNION {SeqSet(data[s]) : s \in DOMAIN data}

PerfectMatchInput ==
    /\ predictions = gold_data
    /\ \E l \in AllLists(gold_data) : Len(l) > 0

DisjointInput ==
    \A s \in DOMAIN gold_data :
        \A pair \in ComparedLists(s) :
            \A x \in SeqSet(pair[1]), y \in SeqSet(pair[2]) :
                x[1] # y[1] \/ x[2] # y[2]

\* compute_span_f1 has returned, or compute_srl_f1 has its unofficial results.
F1Done == fpc \in {"returned", "official"}

AllHundred == [precision |-> Num(100), recall |-> Num(100), f1 |-> Num(100)]

AllZero == [precision |-> Num(0), recall |-> Num(0), f1 |-> Num(0)]

(***************************************************************************)
(* C3: for a perfect match (the predicted spans equal the gold spans, with *)
(* the same labels, for every sentence and every predicate) with at least  *)
(* one span, the labeled precision, recall and F1 returned are 100.        *)
(* The code does not do this: see the failing input in RESULTS.json.       *)
(***************************************************************************)
C3_PerfectMatchScores100 ==
    (F1Done /\ PerfectMatchInput) => f1_result.labeled = AllHundred

(***************************************************************************)
(* C4: for disjoint spans (no predicted span has the (start, end) of a     *)
(* gold span of the same sentence and, in compute_srl_f1, of the same      *)
(* predicate) the labeled and unlabeled matched counts stay 0, and every   *)
(* score returned (precision, recall, F1, labeled and unlabeled) is 0.     *)
(***************************************************************************)
C4_DisjointScoresZero ==
    (fn # "idle" /\ DisjointInput) =>
        /\ total_matched = 0
        /\ total_unlabeled_matched = 0
        /\ fpc # "raised"
        /\ F1Done =>
              /\ f1_result.labeled = AllZero
              /\ f1_result.unlabeled = AllZero

\* A call that compared a gold span with a predicted span at another place.
C4_Witness ==
    /\ F1Done
    /\ DisjointInput
    /\ \E s \in DOMAIN gold_data :
          \E pair \in ComparedLists(s) :
              Len(pair[1]) > 0 /\ Len(pair[2]) > 0
    /\ total_gold > 0
    /\ total_predicted > 0

(***************************************************************************)
(* C5: after every step of the counting loops the unlabeled match count is *)
(* at least the labeled match count, and the unlabeled precision and       *)
(* recall returned are at least the labeled ones.                          *)
(***************************************************************************)
C5_UnlabeledAtLeastLabeled ==
    /\ total_unlabeled_matched >= total_matched
    /\ F1Done =>
          /\ LessEq(f1_result.labeled.precision,
                    f1_result.unlabeled.precision)
          /\ LessEq(f1_result.labeled.recall, f1_result.unlabeled.recall)

\* A call that found a span matched with another label, and one that is at
\* line 77 (143), between the two increments.
C5_Witness ==
    /\ F1Done
    /\ total_unlabeled_matched > total_matched
    /\ f1_result.unlabeled.precision # f1_result.labeled.precision

(***************************************************************************)
(* C6: every division of the F1 computation is guarded: no                 *)
(* ZeroDivisionError is raised; _print_f1 returns precision 0 when the     *)
(* predicted count is 0, recall 0 when the gold count is 0, F1 0 when      *)
(* precision + recall is 0 (all three 0 for zero predicted and zero gold   *)
(* spans); and the official F1 is 0 when the official recall + precision   *)
(* is 0.                                                                   *)
(***************************************************************************)
GuardedScores(r) ==
    /\ total_predicted = 0 => r.precision = Num(0)
    /\ total_gold = 0 => r.recall = Num(0)
    /\ (r.precision = Num(0) /\ r.recall = Num(0)) => r.f1 = Num(0)
    /\ (total_predicted = 0 /\ total_gold = 0) => r = AllZero

C6_DivisionsGuarded ==
    /\ f1_result # ZeroDivisionError
    /\ srl_result # ZeroDivisionError
    /\ fpc # "print" =>
          GuardedScores(f1_result.labeled) /\ GuardedScores(f1_result.unlabeled)
    /\ (fpc \in {"return", "returned"}
          /\ conll_recall = Num(0) /\ conll_precision = Num(0)) =>
             conll_f1 = Num(0)

\* No gold and no predicted span, and a scorer that reported 0.00 twice.
C6_Witness ==
    /\ fpc = "returned"
    /\ total_gold = 0
    /\ total_predicted = 0
    /\ printed = <<>>
    /\ srl_result.result = AllZero
    /\ srl_result.conll_result = AllZero

(***************************************************************************)
(* C8, as amended: the first parse failure decides.  When the first output *)
(* of the scorer has fewer than 7 lines or fewer than 6 fields on its 7th  *)
(* line, or when its field parses as a number and the second output has    *)
(* fewer than 7 lines or fewer than 6 fields on its 7th line, the          *)
(* IndexError is caught: the official precision, recall and F1 are 0, the  *)
(* diagnostic message is printed, and the unofficial labeled and unlabeled *)
(* results, label_confusions and comp_sents are returned unchanged.  When  *)
(* the field of the first output is not a number, or the first parses and  *)
(* the field of the second is not a number, the ValueError is not caught   *)
(* and leaves compute_srl_f1, whatever the second output is.               *)
(***************************************************************************)
ShortOutput(text) ==
    \/ Len(StripSplit(text)) < 7
    \/ Len(StripSplit(text)[7]) < 6

NotANumber(text) ==
    /\ ~ShortOutput(text)
    /\ StripSplit(text)[7][6] \notin {"0.00", "50.00", "100.00"}

Degraded ==
    /\ fpc = "returned"
    /\ srl_result.conll_result = AllZero
    /\ printed = <<"Unable to get FScore. Skipping.">>
    /\ srl_result.result =
          PrintF1(total_gold, total_predicted, total_matched)
    /\ srl_result.ul_result =
          PrintF1(total_gold, total_predicted, total_unlabeled_matched)
    /\ srl_result.label_confusions = label_confusions
    /\ srl_result.comp_sents = comp_sents

Propagated == fpc = "raised" /\ srl_result = ValueError

C8_FirstFailureDecides ==
    fpc \in {"returned", "raised"} =>
        /\ ShortOutput(eval_info) => Degraded
        /\ NotANumber(eval_info) => Propagated
        /\ (~ShortOutput(eval_info) /\ ~NotANumber(eval_info)) =>
              /\ ShortOutput(eval_info2) => Degraded
              /\ NotANumber(eval_info2) => Propagated
              /\ (~ShortOutput(eval_info2) /\ ~NotANumber(eval_info2)) =>
                    fpc = "returned" /\ printed = <<>>

\* The second run of the scorer printed too little, after a first run whose
\* score was read.
C8_Witness ==
    /\ fpc = "returned"
    /\ ~ShortOutput(eval_info)
    /\ ShortOutput(eval_info2)
    /\ Len(StripSplit(eval_info2)) >= 7
    /\ Degraded

(***************************************************************************)
(* C8, as claimed: an output with fewer than 7 lines or fewer than 6       *)
(* fields on its 7th line, in either of the two invocations, is caught and *)
(* degrades to official scores of 0 with the message and the unofficial    *)
(* results unchanged; a field that is present but not a number propagates. *)
(* It fails when the first output's field is not a number and the second   *)
(* output is short: the ValueError leaves the function first.              *)
(***************************************************************************)
C8_AnyShortOutputDegrades ==
    fpc \in {"returned", "raised"} =>
        /\ (ShortOutput(eval_info) \/ ShortOutput(eval_info2)) => Degraded
        /\ (/\ ~ShortOutput(eval_info) /\ ~ShortOutput(eval_info2)
            /\ (NotANumber(eval_info) \/ NotANumber(eval_info2))) =>
               Propagated

(***************************************************************************)
(* C10: the labeled and the unlabeled matched counts never exceed the      *)
(* total gold count nor the total predicted count, so every precision and  *)
(* recall returned lies between 0 and 100.                                 *)
(* The code does not do this: see the failing input in RESULTS.json.       *)
(***************************************************************************)
C10_MatchedWithinTotals ==
    F1Done =>
        /\ total_matched <= total_gold
        /\ total_matched <= total_predicted
        /\ total_unlabeled_matched <= total_gold
        /\ total_unlabeled_matched <= total_predicted
        /\ \A r \in {f1_result.labeled, f1_result.unlabeled} :
              /\ LessEq(r.precision, Num(100))
              /\ LessEq(r.recall, Num(100))

(***************************************************************************)
(* C7: the table print_sentence_to_conll writes for a sentence is read     *)
(* back by read_gold_predicates as the same sequence of tokens: the first  *)
(* field of each line that is not blank, a blank line ending the sentence. *)
(***************************************************************************)
C7_TokensReadBack ==
    cpc = "done" => gold_predicates[1] = tokens

(***************************************************************************)
(* C9: inside a with shut_up(...) block every selected descriptor (2 for   *)
(* stderr, 1 for stdout) refers to the null device, and once the block has *)
(* been left, normally or by an exception, every selected descriptor       *)
(* refers again to what it referred to when the block was entered.         *)
(***************************************************************************)
C9_SuppressedThenRestored ==
    /\ spc = "body" =>
          \A i \in 1..Len(fds) : fd_table[fds[i]] = "devnull"
    /\ spc = "left" =>
          \A i \in 1..Len(fds) : fd_table[fds[i]] = entry_table[fds[i]]

(***************************************************************************)
(* C11: when every batch starts with a call with count == 1 and count      *)
(* grows by 1 with each example added, every call returns count times the  *)
(* longest first entry of the examples of the current batch alone: the     *)
(* examples of earlier batches, however long, have no part in it.          *)
(***************************************************************************)
C11_SizeOfCurrentBatchOnly ==
    count >= 1 =>
        /\ count = Len(minibatch)
        /\ elements = IntObj(count * LongestOf(minibatch))
        /\ max_length = IntObj(LongestOf(minibatch))

\* A call made when an earlier batch held a longer example than the
\* current one.
C11_Witness ==
    /\ count >= 1
    /\ longest_before > LongestOf(minibatch)
    /\ elements = IntObj(count * LongestOf(minibatch))

=============================================================================
